---- MODULE Spec2Model ----
(***************************************************************************)
(* Recipe catalog service (FastAPI + SQLAlchemy async session on SQLite).  *)
(*                                                                         *)
(* The state is the content of the two tables (recipes, ingredients) and,  *)
(* for every request being served, the position of its handler and the    *)
(* ORM object its session holds.  Each handler runs in its own session on  *)
(* its own connection (database.py: NullPool, one SessionLocal per         *)
(* request); every `await` on the session is a point where other requests  *)
(* run, so a handler is one action per database round trip:                *)
(*   GET /recipes/{id} : SELECT | UPDATE+COMMIT | SELECT (refresh)         *)
(*   POST /recipes     : INSERTs+COMMIT | SELECT (refresh)                 *)
(*   GET /recipes      : SELECT ... ORDER BY                               *)
(* A SELECT outside a write transaction holds no lock once it has          *)
(* returned (pysqlite begins a transaction only before the first DML), so  *)
(* the read of one request and the write of another interleave freely.     *)
(***************************************************************************)
EXTENDS Integers, Sequences, FiniteSets, Bags, TLC

VARIABLES
    recipes,      \* table recipes: rows in rowid order
    ingredients,  \* table ingredients: rows in rowid order
    sessions,     \* bag of the open sessions, one per request being served:
                  \*   [pc: where its handler stands, recipe: the Recipe object it holds]
    out,          \* the HTTP response sent by the step just taken (NoOut if none)
    returned,     \* history: returned[id] = views values of the 200 detail responses for id
    overlap,      \* history: overlap[id] = two detail calls on id were in flight together
    submitted     \* history: submitted[id] = ingredient names submitted when id was created

vars == <<recipes, ingredients, sessions, out, returned, overlap, submitted>>

----------------------------------------------------------------------------
(* Bounds of the model *)

NumRequests == 2      \* requests served concurrently
MaxRecipes == 2       \* recipes created in one run
MaxDetails == 3       \* detail calls that find their recipe, in one run
MaxSortRecipes == 3   \* rows of the tables the sorting specification starts from
MaxSortViews == 2     \* views of a row of those tables

(* Program constants *)

MaxNameLen == 200
MaxIngredientNameLen == 200
MaxCookTime == 24 * 60
MissingId == 999999

RecipeIds == 1..MaxRecipes
SortRecipeIds == 1..MaxSortRecipes

None == [absent |-> TRUE]
NoOut == [kind |-> "none", status |-> 0, body |-> None]

----------------------------------------------------------------------------
(* Request bodies *)

RECURSIVE Rep(_)
Rep(n) ==
    IF n = 0 THEN ""
    ELSE LET half == Rep(n \div 2)
         IN  half \o half \o (IF n % 2 = 1 THEN "x" ELSE "")

Payload(n, c, d, ings) ==
    [name |-> n, cook_time_minutes |-> c, description |-> d, ingredients |-> ings]

IngredientIn(s) == [name |-> s]

\* the bodies the concurrent specification posts
Payloads ==
    { Payload("Okroshka", 10, "Chop. Mix.",
              <<IngredientIn("Kvass"), IngredientIn("Cucumber"), IngredientIn("Kvass")>>),
      Payload("Shchi", 30, "Boil.", <<>>),
      Payload("", 25, "Test", <<>>) }

\* bodies on and around every limit of schemas.py: a valid body with one
\* field at a time set below, on and above its limits, and a body that
\* breaks every limit
BoundaryNames == {"", "x", Rep(MaxNameLen), Rep(MaxNameLen + 1)}
BoundaryCookTimes == {0, 1, MaxCookTime, MaxCookTime + 1}
BoundaryDescriptions == {"", "d"}
BoundaryIngredients ==
    { <<>>,
      <<IngredientIn("")>>,
      <<IngredientIn("x"), IngredientIn(Rep(MaxIngredientNameLen))>>,
      <<IngredientIn("x"), IngredientIn(Rep(MaxIngredientNameLen + 1))>> }

BoundaryPayloads ==
    { Payload(n, 1, "d", <<>>) : n \in BoundaryNames }
      \cup { Payload("x", c, "d", <<>>) : c \in BoundaryCookTimes }
      \cup { Payload("x", 1, d, <<>>) : d \in BoundaryDescriptions }
      \cup { Payload("x", 1, "d", ings) : ings \in BoundaryIngredients }
      \cup { Payload("", 0, "", <<IngredientIn("")>>) }

\* cook times of the recipes the sorting specification starts from
SortCookTimes == {10, 30, 60}

----------------------------------------------------------------------------
(* schemas.py: request validation *)

IngredientInValid(i) ==
    Len(i.name) >= 1 /\ Len(i.name) <= MaxIngredientNameLen

\* faulty variant: cook_time_minutes declared conint(ge=1), the upper limit left out
RecipeCreateValid_NoUpperCookTime(payload) ==
    /\ Len(payload.name) >= 1 /\ Len(payload.name) <= MaxNameLen
    /\ payload.cook_time_minutes >= 1
    /\ Len(payload.description) >= 1
    /\ \A k \in 1..Len(payload.ingredients) : IngredientInValid(payload.ingredients[k])

RecipeCreateValid(payload) ==
    /\ Len(payload.name) >= 1 /\ Len(payload.name) <= MaxNameLen
    /\ payload.cook_time_minutes >= 1 /\ payload.cook_time_minutes <= MaxCookTime
    /\ Len(payload.description) >= 1
    /\ \A k \in 1..Len(payload.ingredients) : IngredientInValid(payload.ingredients[k])

----------------------------------------------------------------------------
(* The store *)

NextRowid(tbl) ==
    IF tbl = <<>> THEN 1 ELSE tbl[Len(tbl)].id + 1

RecipeRow(id, name, cook, descr) ==
    [id |-> id, name |-> name, cook_time_minutes |-> cook, views |-> 0,
     description |-> descr]

IngredientRows(first, rid, names) ==
    [k \in 1..Len(names) |-> [id |-> first + k - 1, recipe_id |-> rid, name |-> names[k]]]

SelectIngredients(ings, rid) ==
    SelectSeq(ings, LAMBDA i : i.recipe_id = rid)

LoadRecipe(row, ings) ==
    [id |-> row.id, name |-> row.name, cook_time_minutes |-> row.cook_time_minutes,
     views |-> row.views, description |-> row.description,
     ingredients |-> SelectIngredients(ings, row.id)]

\* faulty variant: scalars().first() of a query that lost its WHERE when no row matches
get_recipe_by_id_OrFirst(tbl, ings, recipe_id) ==
    LET found == SelectSeq(tbl, LAMBDA r : r.id = recipe_id)
    IN  IF found # <<>> THEN LoadRecipe(found[1], ings)
        ELSE IF tbl # <<>> THEN LoadRecipe(tbl[1], ings)
        ELSE None

get_recipe_by_id(tbl, ings, recipe_id) ==
    LET found == SelectSeq(tbl, LAMBDA r : r.id = recipe_id)
    IN  IF found = <<>> THEN None ELSE LoadRecipe(found[1], ings)

\* faulty variant: UPDATE recipes SET views = v, without its WHERE
UpdateViews_NoWhere(tbl, recipe_id, v) ==
    [k \in 1..Len(tbl) |-> [tbl[k] EXCEPT !.views = v]]

UpdateViews(tbl, recipe_id, v) ==
    [k \in 1..Len(tbl) |->
        IF tbl[k].id = recipe_id THEN [tbl[k] EXCEPT !.views = v] ELSE tbl[k]]

\* faulty variant: ORDER BY views DESC, cook_time_minutes ASC, without the id
OrderBefore_NoId(a, b) ==
    \/ a.views > b.views
    \/ a.views = b.views /\ a.cook_time_minutes < b.cook_time_minutes

OrderBefore(a, b) ==
    \/ a.views > b.views
    \/ a.views = b.views /\ a.cook_time_minutes < b.cook_time_minutes
    \/ a.views = b.views /\ a.cook_time_minutes = b.cook_time_minutes /\ a.id < b.id

RECURSIVE InsertOrdered(_, _)
InsertOrdered(r, s) ==
    IF s = <<>> THEN <<r>>
    ELSE IF OrderBefore(r, Head(s)) THEN <<r>> \o s
    ELSE <<Head(s)>> \o InsertOrdered(r, Tail(s))

RECURSIVE OrderBy(_)
OrderBy(rows) ==
    IF rows = <<>> THEN <<>> ELSE InsertOrdered(Head(rows), OrderBy(Tail(rows)))

list_recipes_sorted(tbl) == OrderBy(tbl)

----------------------------------------------------------------------------
(* Response shapes *)

RecipeListItem(r) ==
    [id |-> r.id, name |-> r.name, views |-> r.views,
     cook_time_minutes |-> r.cook_time_minutes]

RecipeDetail(r) ==
    [id |-> r.id, name |-> r.name, cook_time_minutes |-> r.cook_time_minutes,
     views |-> r.views,
     ingredients |-> [k \in 1..Len(r.ingredients) |-> r.ingredients[k].name],
     description |-> r.description]

Response(kind, status, body) == [kind |-> kind, status |-> status, body |-> body]

----------------------------------------------------------------------------
(* History helpers *)

Session(at, recipe) == [pc |-> at, recipe |-> recipe]

Open(s) == sessions (+) SetToBag({s})
Close(s) == sessions (-) SetToBag({s})
Swap(s, t) == (sessions (-) SetToBag({s})) (+) SetToBag({t})

\* a request is accepted while fewer than NumRequests are being served
Accepts == BagCardinality(sessions) < NumRequests

\* the detail calls on id being served
InFlight(id) ==
    { s \in BagToSet(sessions) : s.pc \in {"loaded", "committed"} /\ s.recipe.id = id }

RECURSIVE BagSum(_, _)
BagSum(B, S) ==
    IF S = {} THEN 0
    ELSE LET s == CHOOSE x \in S : TRUE IN CopiesIn(s, B) + BagSum(B, S \ {s})

RECURSIVE SumLen(_, _)
SumLen(f, n) == IF n = 0 THEN 0 ELSE Len(f[n]) + SumLen(f, n - 1)

DetailsStarted ==
    SumLen(returned, Len(returned))
      + BagSum(sessions, { s \in BagToSet(sessions) : s.pc \in {"loaded", "committed"} })

----------------------------------------------------------------------------

Init ==
    /\ recipes = <<>>
    /\ ingredients = <<>>
    /\ sessions = EmptyBag
    /\ out = NoOut
    /\ returned = [id \in RecipeIds |-> <<>>]
    /\ overlap = [id \in RecipeIds |-> FALSE]
    /\ submitted = [id \in RecipeIds |-> <<>>]

\* faulty variant: the recipe is added and committed before its ingredients are appended
create_recipe_CommitBeforeIngredients(payload) ==
    LET rid == NextRowid(recipes)
        names == [k \in 1..Len(payload.ingredients) |-> payload.ingredients[k].name]
    IN  /\ recipes' = Append(recipes,
                RecipeRow(rid, payload.name, payload.cook_time_minutes,
                          payload.description))
        /\ ingredients' = ingredients
        /\ sessions' = Open(Session("created",
                [id |-> rid, name |-> payload.name,
                 cook_time_minutes |-> payload.cook_time_minutes, views |-> 0,
                 description |-> payload.description, ingredients |-> <<>>]))
        /\ submitted' = [submitted EXCEPT ![rid] = names]

(* crud.py create_recipe up to and including session.commit() *)
create_recipe(payload) ==
    LET rid == NextRowid(recipes)
        names == [k \in 1..Len(payload.ingredients) |-> payload.ingredients[k].name]
        rows == IngredientRows(NextRowid(ingredients), rid, names)
    IN  /\ recipes' = Append(recipes,
                RecipeRow(rid, payload.name, payload.cook_time_minutes,
                          payload.description))
        /\ ingredients' = ingredients \o rows
        /\ sessions' = Open(Session("created",
                [id |-> rid, name |-> payload.name,
                 cook_time_minutes |-> payload.cook_time_minutes, views |-> 0,
                 description |-> payload.description, ingredients |-> rows]))
        /\ submitted' = [submitted EXCEPT ![rid] = names]

(* POST /recipes: validation of the body, then create_recipe up to its commit *)
post_recipe(payload) ==
    /\ Accepts
    /\ IF RecipeCreateValid(payload)
       THEN /\ Len(recipes) < MaxRecipes
            /\ create_recipe(payload)
            /\ out' = NoOut
            /\ UNCHANGED <<returned, overlap>>
       ELSE /\ out' = Response("create", 422, None)
            /\ UNCHANGED <<recipes, ingredients, sessions, returned, overlap, submitted>>

(* POST /recipes: session.refresh(recipe) and the 201 response *)
post_recipe_refresh(s) ==
    /\ BagIn(s, sessions)
    /\ s.pc = "created"
    /\ out' = Response("create", 201,
                RecipeDetail(get_recipe_by_id(recipes, ingredients, s.recipe.id)))
    /\ sessions' = Close(s)
    /\ UNCHANGED <<recipes, ingredients, returned, overlap, submitted>>

(* GET /recipes *)
get_recipes ==
    /\ Accepts
    /\ LET rows == list_recipes_sorted(recipes)
       IN  out' = Response("list", 200, [k \in 1..Len(rows) |-> RecipeListItem(rows[k])])
    /\ UNCHANGED <<recipes, ingredients, sessions, returned, overlap, submitted>>

(* GET /recipes/{id}: get_recipe_by_id, and the 404 when it finds nothing *)
get_recipe(recipe_id) ==
    /\ Accepts
    /\ LET recipe == get_recipe_by_id(recipes, ingredients, recipe_id)
       IN  IF recipe = None
           THEN /\ out' = Response("detail", 404, None)
                /\ UNCHANGED <<sessions, overlap>>
           ELSE /\ DetailsStarted < MaxDetails
                /\ sessions' = Open(Session("loaded", recipe))
                /\ overlap' = [overlap EXCEPT ![recipe_id] = @ \/ InFlight(recipe_id) # {}]
                /\ out' = NoOut
    /\ UNCHANGED <<recipes, ingredients, returned, submitted>>

\* faulty variant: recipe.views + 1 computed and dropped, so the commit writes nothing
increment_views_commit_NoAssign(s) ==
    /\ BagIn(s, sessions)
    /\ s.pc = "loaded"
    /\ sessions' = Swap(s, Session("committed", s.recipe))
    /\ out' = NoOut
    /\ UNCHANGED <<recipes, ingredients, returned, overlap, submitted>>

(* increment_views_and_get: recipe.views += 1; session.commit() *)
increment_views_commit(s) ==
    /\ BagIn(s, sessions)
    /\ s.pc = "loaded"
    /\ LET v == s.recipe.views + 1
       IN  /\ recipes' = UpdateViews(recipes, s.recipe.id, v)
           /\ sessions' = Swap(s, Session("committed", [s.recipe EXCEPT !.views = v]))
    /\ out' = NoOut
    /\ UNCHANGED <<ingredients, returned, overlap, submitted>>

(* increment_views_and_get: session.refresh(recipe); then the 200 response *)
increment_views_refresh(s) ==
    /\ BagIn(s, sessions)
    /\ s.pc = "committed"
    /\ LET fresh == get_recipe_by_id(recipes, ingredients, s.recipe.id)
       IN  /\ out' = Response("detail", 200, RecipeDetail(fresh))
           /\ returned' = [returned EXCEPT ![s.recipe.id] = Append(@, fresh.views)]
    /\ sessions' = Close(s)
    /\ UNCHANGED <<recipes, ingredients, overlap, submitted>>

\* the ids a detail call asks for
DetailIds == DOMAIN returned \cup {MissingId}

Next ==
    \/ \E payload \in Payloads : post_recipe(payload)
    \/ \E s \in BagToSet(sessions) : post_recipe_refresh(s)
    \/ get_recipes
    \/ \E recipe_id \in DetailIds : get_recipe(recipe_id)
    \/ \E s \in BagToSet(sessions) : increment_views_commit(s)
    \/ \E s \in BagToSet(sessions) : increment_views_refresh(s)

Spec == Init /\ [][Next]_vars

(* Validation: an empty store, and create requests on and around every limit *)
NextValidation ==
    \/ \E payload \in BoundaryPayloads : post_recipe(payload)
    \/ \E s \in BagToSet(sessions) : post_recipe_refresh(s)
    \/ get_recipes

SpecValidation == Init /\ [][NextValidation]_vars

(* Sorting: the store after n creates with no ingredients and v[k]         *)
(* detail calls, one after the other, on each recipe k; then list requests *)
InitSort ==
    /\ \E n \in 0..MaxSortRecipes :
         \E cook \in [1..n -> SortCookTimes], v \in [1..n -> 0..MaxSortViews] :
            /\ recipes = [k \in 1..n |->
                    [RecipeRow(k, "Recipe", cook[k], "Cook.") EXCEPT !.views = v[k]]]
            /\ returned = [id \in SortRecipeIds |->
                    IF id <= n THEN [i \in 1..v[id] |-> i] ELSE <<>>]
    /\ ingredients = <<>>
    /\ sessions = EmptyBag
    /\ out = NoOut
    /\ overlap = [id \in SortRecipeIds |-> FALSE]
    /\ submitted = [id \in SortRecipeIds |-> <<>>]

NextSort == get_recipes

SpecSort == InitSort /\ [][NextSort]_vars

----------------------------------------------------------------------------
(* What the properties speak of *)

Persisted(id) == \E k \in 1..Len(recipes) : recipes[k].id = id

RowOf(id) == (CHOOSE k \in 1..Len(recipes) : recipes[k].id = id)

Distinct(seq) == \A i, j \in 1..Len(seq) : i # j => seq[i] # seq[j]

\* the order of GET /recipes, stated on two entries of a listing
ListedBefore(a, b) ==
    \/ a.views > b.views
    \/ a.views = b.views /\ a.cook_time_minutes < b.cook_time_minutes
    \/ a.views = b.views /\ a.cook_time_minutes = b.cook_time_minutes /\ a.id < b.id

\* listing holds every row of tbl exactly once, in the order of GET /recipes
IsSortedListing(listing, tbl) ==
    /\ Len(listing) = Len(tbl)
    /\ \A k \in 1..Len(tbl) :
          Cardinality({ i \in 1..Len(listing) : listing[i] = RecipeListItem(tbl[k]) }) = 1
    /\ \A i, j \in 1..Len(listing) : i < j => ListedBefore(listing[i], listing[j])

\* a body the contract of POST /recipes rejects
ViolatesCreateContract(payload) ==
    \/ Len(payload.name) = 0
    \/ Len(payload.name) > 200
    \/ payload.cook_time_minutes < 1
    \/ payload.cook_time_minutes > 1440
    \/ Len(payload.description) = 0
    \/ \E k \in 1..Len(payload.ingredients) :
          Len(payload.ingredients[k].name) = 0 \/ Len(payload.ingredients[k].name) > 200

IngredientNamesOf(id) ==
    LET rows == SelectSeq(ingredients, LAMBDA i : i.recipe_id = id)
    IN  [k \in 1..Len(rows) |-> rows[k].name]

----------------------------------------------------------------------------
(* C1: once every detail call on a recipe has completed, its stored views  *)
(* equals the number of those calls (no increment is lost).                *)
C1_NoLostUpdate ==
    \A id \in DOMAIN returned :
        (Persisted(id) /\ InFlight(id) = {}) =>
            recipes[RowOf(id)].views = Len(returned[id])

(* C2: a recipe's stored views never decreases in any step, and a recipe   *)
(* that appears in a step appears with views = 0.                          *)
C2_ViewsMonotone ==
    [][\A k \in 1..Len(recipes') :
          IF \E j \in 1..Len(recipes) : recipes[j].id = recipes'[k].id
          THEN \A j \in 1..Len(recipes) :
                  recipes[j].id = recipes'[k].id => recipes'[k].views >= recipes[j].views
          ELSE recipes'[k].views = 0]_vars

(* C3: in every state list_recipes_sorted yields every persisted recipe    *)
(* exactly once, ordered by views descending, then cook_time_minutes       *)
(* ascending, then id ascending; and a GET /recipes response is that       *)
(* listing.                                                                *)
C3_ListSorted ==
    /\ IsSortedListing([k \in 1..Len(recipes) |->
            RecipeListItem(list_recipes_sorted(recipes)[k])], recipes)
    /\ out.kind = "list" => out.status = 200 /\ IsSortedListing(out.body, recipes)

\* a listing of three recipes with equal views that is not in id order and
\* holds two recipes with the same cook time
C3_Witness ==
    /\ out.kind = "list" /\ Len(out.body) = 3
    /\ out.body[1].id # 1
    /\ \E i, j \in 1..3 :
          /\ i < j
          /\ out.body[i].views = out.body[j].views
          /\ out.body[i].cook_time_minutes = out.body[j].cook_time_minutes
    /\ \E i, j \in 1..3 : out.body[i].views > out.body[j].views

(* C4: while the detail calls on a recipe run one after the other, the Nth *)
(* 200 response reports views = N, and a list response given when none of  *)
(* them is running shows the recipe with views = N.                        *)
C4_SequentialDetail ==
    /\ \A id \in DOMAIN returned :
          ~overlap[id] => \A n \in 1..Len(returned[id]) : returned[id][n] = n
    /\ (out.kind = "detail" /\ out.status = 200 /\ ~overlap[out.body.id]) =>
          out.body.views = Len(returned[out.body.id])
    /\ out.kind = "list" =>
          \A k \in 1..Len(out.body) :
              (~overlap[out.body[k].id] /\ InFlight(out.body[k].id) = {}) =>
                  out.body[k].views = Len(returned[out.body[k].id])

\* a list response that shows views = 2 for a recipe viewed twice in a row
C4_Witness ==
    /\ out.kind = "list"
    /\ \E k \in 1..Len(out.body) :
          /\ out.body[k].views = 2
          /\ ~overlap[out.body[k].id]
          /\ returned[out.body[k].id] = <<1, 2>>

(* C5: a detail call for an id no persisted recipe has answers 404 with no *)
(* recipe object, and leaves both tables and every session as they were.   *)
C5_NotFound ==
    [][\A id \in DetailIds :
          (~Persisted(id) /\ get_recipe(id)) =>
              /\ out' = Response("detail", 404, None)
              /\ recipes' = recipes
              /\ ingredients' = ingredients
              /\ sessions' = sessions]_vars

\* a 404 given while recipes exist and another request is being served
C5_Witness ==
    /\ out.kind = "detail" /\ out.status = 404
    /\ Len(recipes) >= 1
    /\ sessions # EmptyBag

(* C6: a create request that breaks a limit of the contract answers 422    *)
(* and adds no recipe row and no ingredient row, so the listing is the     *)
(* same after it as before.                                                *)
C6_InvalidCreateRejected ==
    [][\A payload \in BoundaryPayloads :
          (ViolatesCreateContract(payload) /\ post_recipe(payload)) =>
              /\ out' = Response("create", 422, None)
              /\ recipes' = recipes
              /\ ingredients' = ingredients
              /\ list_recipes_sorted(recipes') = list_recipes_sorted(recipes)]_vars

\* a 422 given when the store already holds recipes and ingredients
C6_Witness ==
    /\ out.kind = "create" /\ out.status = 422
    /\ Len(recipes) >= 1
    /\ Len(ingredients) >= 1

(* C7: every 201 response reports views = 0 and the ingredient names in    *)
(* the order submitted, and every 200 detail response reports them in that *)
(* order too.                                                              *)
C7_CreateResponse ==
    /\ (out.kind = "create" /\ out.status = 201) =>
          out.body.views = 0 /\ out.body.ingredients = submitted[out.body.id]
    /\ (out.kind = "detail" /\ out.status = 200) =>
          out.body.ingredients = submitted[out.body.id]

(* C8: every persisted ingredient references a persisted recipe, every     *)
(* persisted recipe has all the ingredients submitted with it, and no      *)
(* detail response shows a recipe with only part of them.                  *)
C8_CreateAtomic ==
    /\ \A k \in 1..Len(ingredients) : Persisted(ingredients[k].recipe_id)
    /\ \A k \in 1..Len(recipes) :
          IngredientNamesOf(recipes[k].id) = submitted[recipes[k].id]
    /\ (out.kind = "detail" /\ out.status = 200) =>
          out.body.ingredients = submitted[out.body.id]

\* a detail response with all three ingredients, given while a create
\* request is between its commit and its response
C8_Witness ==
    /\ out.kind = "detail" /\ out.status = 200
    /\ Len(out.body.ingredients) = 3
    /\ \E s \in BagToSet(sessions) : s.pc = "created"

(* C9: in every step no recipe row and no ingredient row is removed or     *)
(* changed in anything but views, no ingredient is added to a recipe that  *)
(* exists, and a recipe's views changes only in the commit of a detail     *)
(* call on that recipe.                                                    *)
C9_Frame ==
    [][/\ Len(recipes') >= Len(recipes)
       /\ \A k \in 1..Len(recipes) :
             /\ recipes'[k] = [recipes[k] EXCEPT !.views = recipes'[k].views]
             /\ recipes'[k].views # recipes[k].views =>
                   \E s \in BagToSet(sessions) :
                       s.recipe.id = recipes[k].id /\ increment_views_commit(s)
       /\ Len(ingredients') >= Len(ingredients)
       /\ \A k \in 1..Len(ingredients) : ingredients'[k] = ingredients[k]
       /\ \A k \in (Len(ingredients) + 1)..Len(ingredients') :
             ~Persisted(ingredients'[k].recipe_id)]_vars

\* two recipes, the second viewed and the first not
C9_Witness ==
    /\ Len(recipes) = 2
    /\ recipes[1].views = 0
    /\ recipes[2].views >= 1
    /\ Len(ingredients) >= 1

(* C10: the views a 200 detail response reports is the value its own call  *)
(* wrote, and the values reported for one recipe are pairwise distinct.    *)
C10_OwnIncrementReported ==
    [][\A s \in BagToSet(sessions) :
          increment_views_refresh(s) =>
              /\ out'.body.views = s.recipe.views
              /\ Distinct(returned'[s.recipe.id])]_vars

====
